---- MODULE Spec2Model ----
(***************************************************************************)
(* State-machine model of the IPEDS ingestion program                      *)
(* (src/ipeds/src/main.rs): main's scheduler loop, the archive tasks       *)
(* (get_mdb_convert), the conversion jobs (convert_mdb) and the per-table  *)
(* export tasks, with the output tree, the connection pool and the store.  *)
(*                                                                         *)
(* Every await point of the source that another task can interleave with   *)
(* is an action boundary.  External outcomes (network, decoder, tools,     *)
(* file system, store) are inputs drawn with \E.                           *)
(***************************************************************************)
EXTENDS Naturals, Sequences, FiniteSets, TLC

\* ---------------------------------------------------------------- bounds
\* A catalog of one archive is explored in depth (MaxEntries, MaxTables), a
\* catalog of two archives, whose tasks interleave, with smaller archives
\* (WideEntries, WideTables), and a larger catalog with archives that hold
\* no entry (their tasks fetch, decode and end or fail).
NumArchives == 3     \* most links the catalog page may hold
MaxP == 2            \* largest --concurrency value explored
MaxEntries == 2      \* most entries the stream of a catalog's only archive yields
MaxTables == 2       \* most lines mdb-tables prints for a catalog's only archive
WideEntries == 0     \* most entries per archive when the catalog holds two
WideTables == 0      \* most lines mdb-tables prints when the catalog holds two
MaxRuns == 2         \* runs of the program against the same output root

\* ------------------------------------------------------- program constants
REQUIRED_TOOLS == {"mdb-tables", "mdb-export", "mdb-schema"}

Archives == 1..NumArchives

\* ------------------------------------------------------------ path model
\* A raw name is a sequence of path components; a component is a stem with
\* an extension (NoExt when the component has none).
NoExt == "-"

Comp(stem, ext) == [stem |-> stem, ext |-> ext]

\* Path::file_name: the final component.
FileName(raw) == raw[Len(raw)]

\* Path::extension: the extension of the final component, if any.
Extension(raw) == FileName(raw).ext

\* Path::file_stem of the final component.
FileStem(raw) == FileName(raw).stem

\* The entries a stream may yield: a plain file, a nested file with the same
\* final component but other bytes, a file of another type, a file without
\* extension, and a database file.
Entries ==
    { [raw |-> <<Comp("readme", "txt")>>, data |-> "d1"],
      [raw |-> <<Comp("doc", NoExt), Comp("readme", "txt")>>, data |-> "d2"],
      [raw |-> <<Comp("notes", "csv")>>, data |-> "d3"],
      [raw |-> <<Comp("LICENSE", NoExt)>>, data |-> "d4"],
      [raw |-> <<Comp("db", "accdb")>>, data |-> "d5"] }

\* out_dir.join(ext).join(filename): only the final component is used.
OutPath(e) == <<Extension(e.raw), FileName(e.raw)>>

\* schema_dir.join(mdbname).with_extension("sql")
SchemaPath(e) == <<"schema", Comp(FileStem(e.raw), "sql")>>

IsDatabaseFile(e) == Extension(e.raw) = "accdb"

\* Variant: the extension test is dropped, every entry is routed.
HasExtensionAny(e) == TRUE

\* if let Some(ext) = raw_path.extension()
HasExtension(e) == Extension(e.raw) # NoExt

Paths ==
    {OutPath(e) : e \in {x \in Entries : HasExtension(x)}}
        \cup {SchemaPath(e) : e \in {x \in Entries : IsDatabaseFile(x)}}

Absent == "absent"      \* no file at the path
Partial == "partial"    \* opened with truncate, the copy did not finish

\* stdout of mdb-schema: the whole schema on exit 0, whatever was printed
\* before the failure otherwise.
SchemaText(exit) == IF exit = "zero" THEN "sql" ELSE "sql-incomplete"

\* stdout of mdb-tables as its lines: 0 is a blank line, i > 0 names table
\* i.  Explored: up to cap lines, of which the last may be blank, when the
\* tool exits with 0; nothing printed when it exits with another status.
TableOutputs(cap, exit) ==
    IF exit = "zero"
    THEN {[i \in 1..k |-> IF i = k /\ blank THEN 0 ELSE i] :
             k \in 0..cap, blank \in BOOLEAN}
    ELSE {<<>>}

\* ------------------------------------------------------------- variables
VARIABLES
    mainpc,      \* main: "start", "catalog", "sched", "vacuum", "done"
    mainResult,  \* what main returned: [st, kind, arch]
    runs,        \* number of the current run
    prev,        \* how the previous run ended: its result, its input, its tree
    outExists,   \* args.out.exists()
    resolvable,  \* the tools `which` can resolve
    clean,       \* args.clean
    P,           \* args.concurrency
    netUsed,     \* a request was sent in this run
    catalogLen,  \* number of links selected from the catalog page
    nextIdx,     \* next link the stream::iter will map (and spawn)
    buffered,    \* join handles held by buffer_unordered
    vacuums,     \* VACUUM statements issued
    dirs,        \* subdirectories of the output root
    fs,          \* content of each file of the output tree
    atask,       \* archive task: "idle","fetch","next","route","join","ok","err","aborted"
    aerr,        \* error an archive task returned
    seen,        \* entries the decoder yielded, in stream order
    routed,      \* entries the loop body has handled, in the order handled
    chandle,     \* convert_handle: "none","held","joined","dropped"
    conv,        \* conversion job: "none","schema","conn","exec","tables","join","ok","err","aborted"
    cerr,        \* error a conversion job returned
    nonzero,     \* tools of the conversion that exited with a non-zero status
    tables,      \* lines of mdb-tables' output
    exp,         \* export tasks, one per line: "conn","exec","ok","err","aborted"
    joinIdx,     \* next export handle the conversion awaits
    stmts        \* statements the store received from each archive, in order

mainVars == <<mainpc, mainResult, runs, prev, outExists, resolvable, clean, P, netUsed,
              catalogLen, nextIdx, buffered, vacuums>>
fsVars == <<dirs, fs>>
archVars == <<atask, aerr, seen, routed, chandle>>
convVars == <<conv, cerr, nonzero, tables, exp, joinIdx>>
vars == <<mainVars, fsVars, archVars, convVars, stmts>>

NoResult == [st |-> "none", kind |-> "", arch |-> 0]
OkResult == [st |-> "ok", kind |-> "", arch |-> 0]
ErrResult(kind, a) == [st |-> "err", kind |-> kind, arch |-> a]
PanicResult == [st |-> "panic", kind |-> "unimplemented", arch |-> 0]

\* The input bounds in force for the catalog at hand.
EntryCap ==
    IF catalogLen <= 1 THEN MaxEntries
    ELSE IF catalogLen = 2 THEN WideEntries ELSE 0
TableCap ==
    IF catalogLen <= 1 THEN MaxTables
    ELSE IF catalogLen = 2 THEN WideTables ELSE 0
MostTables == IF MaxTables >= WideTables THEN MaxTables ELSE WideTables

ArchiveRunning == {"fetch", "next", "route", "join"}
ConvRunning == {"schema", "conn", "exec", "tables", "join"}
ExportRunning == {"conn", "exec"}

\* ------------------------------------------------------------------ Init
Init ==
    /\ mainpc = "start"
    /\ mainResult = NoResult
    /\ runs = 1
    /\ prev = [result |-> NoResult, plain |-> FALSE, fs |-> [p \in Paths |-> Absent]]
    /\ outExists \in BOOLEAN
    /\ resolvable \in SUBSET REQUIRED_TOOLS
    /\ clean \in BOOLEAN
    /\ P \in 1..MaxP
    /\ netUsed = FALSE
    /\ catalogLen = 0
    /\ nextIdx = 1
    /\ buffered = {}
    /\ vacuums = 0
    /\ dirs = {}
    /\ fs = [p \in Paths |-> Absent]
    /\ atask = [a \in Archives |-> "idle"]
    /\ aerr = [a \in Archives |-> ""]
    /\ seen = [a \in Archives |-> <<>>]
    /\ routed = [a \in Archives |-> <<>>]
    /\ chandle = [a \in Archives |-> "none"]
    /\ conv = [a \in Archives |-> "none"]
    /\ cerr = [a \in Archives |-> ""]
    /\ nonzero = [a \in Archives |-> {}]
    /\ tables = [a \in Archives |-> <<>>]
    /\ exp = [a \in Archives |-> <<>>]
    /\ joinIdx = [a \in Archives |-> 1]
    /\ stmts = [a \in Archives |-> <<>>]

\* ------------------------------------------------------- runtime and pool
\* Dropping the tokio runtime when main returns (or panics): every task that
\* has not finished is cancelled at its current await point.
RuntimeDrop ==
    /\ atask' = [a \in Archives |->
                    IF atask[a] \in ArchiveRunning THEN "aborted" ELSE atask[a]]
    /\ chandle' = [a \in Archives |->
                    IF atask[a] \in ArchiveRunning /\ chandle[a] = "held"
                    THEN "dropped" ELSE chandle[a]]
    /\ conv' = [a \in Archives |->
                    IF conv[a] \in ConvRunning THEN "aborted" ELSE conv[a]]
    /\ exp' = [a \in Archives |->
                    [i \in DOMAIN exp[a] |->
                        IF exp[a][i] \in ExportRunning THEN "aborted" ELSE exp[a][i]]]

\* main returns `result`; the runtime is dropped with it.
Return(result) ==
    /\ mainpc' = "done"
    /\ mainResult' = result
    /\ RuntimeDrop
    /\ UNCHANGED <<aerr, seen, routed, cerr, nonzero, tables, joinIdx>>

\* PoolConfig::new(args.concurrency)
PoolSize == P

\* Variant: the conversion drops its connection at the end of convert_mdb,
\* so it holds it while it enumerates the tables and awaits the exports.
CheckedOutAcrossExports ==
    Cardinality({a \in Archives : conv[a] \in {"exec", "tables", "join"}})
        + Cardinality({x \in Archives \X (1..MostTables) :
                          x[2] \in DOMAIN exp[x[1]] /\ exp[x[1]][x[2]] = "exec"})

\* Connections checked out of the pool: one per task between db.get() and
\* the drop of the connection.
CheckedOut ==
    Cardinality({a \in Archives : conv[a] = "exec"})
        + Cardinality({x \in Archives \X (1..MostTables) :
                          x[2] \in DOMAIN exp[x[1]] /\ exp[x[1]][x[2]] = "exec"})

\* db.get() completes only when the pool can hand out a connection.
PoolFree == CheckedOut < PoolSize

\* ------------------------------------------------------------------ main
\* Variant: the loop of check_tools stops after the first tool.
check_tools_first == "mdb-tables" \in resolvable

\* check_tools(&REQUIRED_TOOLS)
check_tools == REQUIRED_TOOLS \subseteq resolvable

\* main up to the catalog request: the branch on args.out.exists(), the tool
\* check, the creation of the output root.
MainStart ==
    /\ mainpc = "start"
    /\ IF outExists
       THEN Return(PanicResult) /\ UNCHANGED outExists
       ELSE IF ~check_tools
       THEN Return(ErrResult("tool", 0)) /\ UNCHANGED outExists
       ELSE \E ok \in BOOLEAN :
              IF ok
              THEN /\ outExists' = TRUE
                   /\ mainpc' = "catalog"
                   /\ UNCHANGED <<mainResult, archVars, convVars>>
              ELSE Return(ErrResult("fs", 0)) /\ UNCHANGED outExists
    /\ UNCHANGED <<runs, prev, resolvable, clean, P, netUsed, catalogLen, nextIdx,
                   buffered, vacuums, fsVars, stmts>>

\* client.get(IPEDS).send().await?.text().await?; the links are selected.
MainCatalog ==
    /\ mainpc = "catalog"
    /\ netUsed' = TRUE
    /\ \/ /\ Return(ErrResult("net", 0))
          /\ UNCHANGED catalogLen
       \/ /\ \E n \in 0..NumArchives : catalogLen' = n
          /\ mainpc' = "sched"
          /\ UNCHANGED <<mainResult, archVars, convVars>>
    /\ UNCHANGED <<runs, prev, outExists, resolvable, clean, P, nextIdx, buffered,
                   vacuums, fsVars, stmts>>

\* Variant: a raw spawn of every link, without buffer_unordered's bound.
CanDispatchUnbounded == TRUE

\* buffer_unordered(args.concurrency) pulls the next item of the stream only
\* while it holds fewer than that many futures.
CanDispatch == Cardinality(buffered) < P

\* The stream's map closure runs for the next link: tokio::spawn of the
\* archive task, whose join handle enters the buffer.
Dispatch ==
    /\ mainpc = "sched"
    /\ nextIdx <= catalogLen
    /\ CanDispatch
    /\ atask' = [atask EXCEPT ![nextIdx] = "fetch"]
    /\ buffered' = buffered \cup {nextIdx}
    /\ nextIdx' = nextIdx + 1
    /\ UNCHANGED <<mainpc, mainResult, runs, prev, outExists, resolvable, clean, P,
                   netUsed, catalogLen, vacuums, fsVars, aerr, seen, routed, chandle,
                   convVars, stmts>>

\* Variant: `res?` alone, which unwraps the join error and drops the task's
\* own result.
CollectUnchecked(a) ==
    /\ mainpc = "sched"
    /\ ~(nextIdx <= catalogLen /\ CanDispatch)
    /\ a \in buffered
    /\ atask[a] \in {"ok", "err"}
    /\ buffered' = buffered \ {a}
    /\ UNCHANGED <<mainpc, mainResult, archVars, convVars>>
    /\ UNCHANGED <<runs, prev, outExists, resolvable, clean, P, netUsed, catalogLen,
                   nextIdx, vacuums, fsVars, stmts>>

\* results.next().await yields a finished task's result (the buffer is
\* filled first); `res??` returns from main on an error.
Collect(a) ==
    /\ mainpc = "sched"
    /\ ~(nextIdx <= catalogLen /\ CanDispatch)
    /\ a \in buffered
    /\ atask[a] \in {"ok", "err"}
    /\ buffered' = buffered \ {a}
    /\ IF atask[a] = "ok"
       THEN UNCHANGED <<mainpc, mainResult, archVars, convVars>>
       ELSE Return(ErrResult(aerr[a], a))
    /\ UNCHANGED <<runs, prev, outExists, resolvable, clean, P, netUsed, catalogLen,
                   nextIdx, vacuums, fsVars, stmts>>

\* Variant: the loop ends as soon as every link has been spawned.
StreamExhaustedEarly == nextIdx > catalogLen

\* results.next().await is None: every link was spawned and every join
\* handle of the buffer has yielded its result.
StreamExhausted == nextIdx > catalogLen /\ buffered = {}

\* The stream is exhausted: the while-let loop ends.
MainFinish ==
    /\ mainpc = "sched"
    /\ StreamExhausted
    /\ IF clean
       THEN mainpc' = "vacuum" /\ UNCHANGED <<mainResult, archVars, convVars>>
       ELSE Return(OkResult)
    /\ UNCHANGED <<runs, prev, outExists, resolvable, clean, P, netUsed, catalogLen,
                   nextIdx, buffered, vacuums, fsVars, stmts>>

\* if args.clean: pool.get().await?, then VACUUM(FULL, ANALYZE).
MainVacuum ==
    /\ mainpc = "vacuum"
    /\ PoolFree
    /\ vacuums' = vacuums + 1
    /\ \E ok \in BOOLEAN :
          Return(IF ok THEN OkResult ELSE ErrResult("store", 0))
    /\ UNCHANGED <<runs, prev, outExists, resolvable, clean, P, netUsed, catalogLen,
                   nextIdx, buffered, fsVars, stmts>>

\* Every entry the archive yielded is a plain one: it has an extension, and
\* not the database one.
PlainOnly(a) ==
    \A i \in 1..Len(seen[a]) :
        HasExtension(seen[a][i]) /\ ~IsDatabaseFile(seen[a][i])

\* The run had a catalog of archives with plain entries only, and at least
\* one such entry.
PlainRun ==
    /\ \A a \in 1..catalogLen : PlainOnly(a)
    /\ \E a \in 1..catalogLen : seen[a] # <<>>

\* The program is started again with the same arguments: the output tree
\* and the store are what the previous run left.
Rerun ==
    /\ mainpc = "done"
    /\ runs < MaxRuns
    /\ runs' = runs + 1
    /\ prev' = [result |-> mainResult, plain |-> PlainRun, fs |-> fs]
    /\ mainpc' = "start"
    /\ mainResult' = NoResult
    /\ netUsed' = FALSE
    /\ catalogLen' = 0
    /\ nextIdx' = 1
    /\ buffered' = {}
    /\ atask' = [a \in Archives |-> "idle"]
    /\ aerr' = [a \in Archives |-> ""]
    /\ seen' = [a \in Archives |-> <<>>]
    /\ routed' = [a \in Archives |-> <<>>]
    /\ chandle' = [a \in Archives |-> "none"]
    /\ conv' = [a \in Archives |-> "none"]
    /\ cerr' = [a \in Archives |-> ""]
    /\ nonzero' = [a \in Archives |-> {}]
    /\ tables' = [a \in Archives |-> <<>>]
    /\ exp' = [a \in Archives |-> <<>>]
    /\ joinIdx' = [a \in Archives |-> 1]
    /\ UNCHANGED <<outExists, resolvable, clean, P, vacuums, fsVars, stmts>>

\* ------------------------------------------- archive task (get_mdb_convert)
Last(q) == q[Len(q)]

\* An early return with an error (`?` or bail!): a convert_handle that is
\* still held is dropped, which detaches the job without stopping it.
ArchiveFail(a, kind) ==
    /\ atask' = [atask EXCEPT ![a] = "err"]
    /\ aerr' = [aerr EXCEPT ![a] = kind]
    /\ chandle' = [chandle EXCEPT ![a] = IF @ = "held" THEN "dropped" ELSE @]

\* client.get(url).send().await?.error_for_status()?
Fetch(a) ==
    /\ atask[a] = "fetch"
    /\ netUsed' = TRUE
    /\ \/ ArchiveFail(a, "net")
       \/ /\ atask' = [atask EXCEPT ![a] = "next"]
          /\ UNCHANGED <<aerr, chandle>>
    /\ UNCHANGED <<mainpc, mainResult, runs, prev, outExists, resolvable, clean, P,
                   catalogLen, nextIdx, buffered, vacuums, fsVars, seen, routed,
                   convVars, stmts>>

\* Variant: the decoder can be asked again while the entry it yielded is
\* still being handled.
CursorConsumedOrOpen(a) == atask[a] \in {"next", "route"}

\* The decoder is in the task's hands: it was just built (line 88) or handed
\* back by reading.skip() (line 149), which consumes the entry's cursor.
CursorConsumed(a) == atask[a] = "next"

\* dcdr.next_with_entry().await?: a framing or transport error (also one met
\* while the previous entry was being skipped), the end of the archive, or
\* the next entry.  At the end of the archive a task without a conversion
\* job returns Ok at once.
NextEntry(a) ==
    /\ CursorConsumed(a)
    /\ \/ ArchiveFail(a, "decode") /\ UNCHANGED seen
       \/ /\ atask' = [atask EXCEPT ![a] =
                          IF chandle[a] = "none" THEN "ok" ELSE "join"]
          /\ UNCHANGED <<aerr, seen, chandle>>
       \/ /\ Len(seen[a]) < EntryCap
          /\ \E e \in Entries : seen' = [seen EXCEPT ![a] = Append(@, e)]
          /\ atask' = [atask EXCEPT ![a] = "route"]
          /\ UNCHANGED <<aerr, chandle>>
    /\ UNCHANGED <<mainVars, fsVars, routed, convVars, stmts>>

\* Variant: the writer is dropped without the copy loop's bytes reaching
\* the file.
CopiedNothing(e) == Partial

\* The copy loop and the flush: the file holds the entry's bytes.
Copied(e) == e.data

\* convert_handle.is_none()
FirstDatabaseFile(a) == chandle[a] = "none"

\* The body of the loop for the entry just yielded: the extension test, the
\* type directory, the truncating copy to <out>/<ext>/<file name>, the
\* spawn of the conversion job for a database file (or the bail on a second
\* one), and the skip to the end of the entry.
RouteEntry(a) ==
    /\ atask[a] = "route"
    /\ routed' = [routed EXCEPT ![a] = Append(@, Last(seen[a]))]
    /\ LET e == Last(seen[a]) IN
       IF ~HasExtension(e)
       THEN /\ atask' = [atask EXCEPT ![a] = "next"]
            /\ UNCHANGED <<aerr, chandle, fsVars, conv>>
       ELSE /\ dirs' = dirs \cup {Extension(e.raw)}
            /\ \E copied \in BOOLEAN :
                 IF ~copied
                 THEN /\ fs' = [fs EXCEPT ![OutPath(e)] = Partial]
                      /\ ArchiveFail(a, "io")
                      /\ UNCHANGED conv
                 ELSE /\ fs' = [fs EXCEPT ![OutPath(e)] = Copied(e)]
                      /\ IF ~IsDatabaseFile(e)
                         THEN /\ atask' = [atask EXCEPT ![a] = "next"]
                              /\ UNCHANGED <<aerr, chandle, conv>>
                         ELSE IF FirstDatabaseFile(a)
                         THEN /\ conv' = [conv EXCEPT ![a] = "schema"]
                              /\ chandle' = [chandle EXCEPT ![a] = "held"]
                              /\ atask' = [atask EXCEPT ![a] = "next"]
                              /\ UNCHANGED aerr
                         ELSE /\ ArchiveFail(a, "dup")
                              /\ UNCHANGED conv
    /\ UNCHANGED <<mainVars, seen, cerr, nonzero, tables, exp, joinIdx, stmts>>

\* if let Some(handle) = convert_handle { handle.await??; } Ok(())
JoinConvert(a) ==
    /\ atask[a] = "join"
    /\ conv[a] \in {"ok", "err"}
    /\ chandle' = [chandle EXCEPT ![a] = "joined"]
    /\ atask' = [atask EXCEPT ![a] = conv[a]]
    /\ aerr' = [aerr EXCEPT ![a] = cerr[a]]
    /\ UNCHANGED <<mainVars, fsVars, seen, routed, convVars, stmts>>

\* --------------------------------------------- conversion job (convert_mdb)
ConvFail(a, kind) ==
    /\ conv' = [conv EXCEPT ![a] = "err"]
    /\ cerr' = [cerr EXCEPT ![a] = kind]

\* The database file the job was spawned for.
DbEntry(a) ==
    LET i == CHOOSE j \in 1..Len(seen[a]) : IsDatabaseFile(seen[a][j])
    IN seen[a][i]

\* What the code does with a tool's exit status: `cmd.output().await?`
\* fails only when the process cannot be run; the status is not looked at.
ExitAccepted(exit) == TRUE

\* Variant: the writer is dropped without a flush, the text stays in its
\* buffer and the file is left as the truncating open made it.
SchemaUnflushed(text) == Partial

\* wrtr.write_all(schema_sql.as_bytes()).await?; wrtr.flush().await?
SchemaFlushed(text) == text

\* The schema directory, mdb-schema, and the schema artifact.  The failure
\* outcome stands for each `?` of these lines: the tool cannot be run, its
\* output is not UTF-8, the directory or the file cannot be written.
ConvSchema(a) ==
    /\ conv[a] = "schema"
    /\ dirs' = dirs \cup {"schema"}
    /\ \/ /\ ConvFail(a, "io")
          /\ UNCHANGED <<fs, nonzero>>
       \/ \E exit \in {"zero", "nonzero"} :
            /\ nonzero' = [nonzero EXCEPT ![a] =
                              IF exit = "zero" THEN @ ELSE @ \cup {"mdb-schema"}]
            /\ IF ~ExitAccepted(exit)
               THEN ConvFail(a, "tool") /\ UNCHANGED fs
               ELSE /\ fs' = [fs EXCEPT ![SchemaPath(DbEntry(a))] =
                                    SchemaFlushed(SchemaText(exit))]
                    /\ conv' = [conv EXCEPT ![a] = "conn"]
                    /\ UNCHANGED cerr
    /\ UNCHANGED <<mainVars, archVars, tables, exp, joinIdx, stmts>>

\* let conn = db.get().await?  (a connection that cannot be established is
\* modelled with the failure of the statement it was wanted for)
ConvGetConn(a) ==
    /\ conv[a] = "conn"
    /\ PoolFree
    /\ conv' = [conv EXCEPT ![a] = "exec"]
    /\ UNCHANGED cerr
    /\ UNCHANGED <<mainVars, fsVars, archVars, nonzero, tables, exp, joinIdx, stmts>>

\* conn.batch_execute(schema_sql).await?; drop(conn)
ConvExecSchema(a) ==
    /\ conv[a] = "exec"
    /\ \E ok \in BOOLEAN :
         /\ stmts' = [stmts EXCEPT ![a] = Append(@, [k |-> "schema", t |-> 0, ok |-> ok])]
         /\ IF ok
            THEN conv' = [conv EXCEPT ![a] = "tables"] /\ UNCHANGED cerr
            ELSE ConvFail(a, "store")
    /\ UNCHANGED <<mainVars, fsVars, archVars, nonzero, tables, exp, joinIdx>>

\* Variant: the export tasks are spawned without awaiting the schema block.
SchemaReturnedEarly(a) == conv[a] \in {"conn", "tables"}

\* The schema block has been executed and batch_execute has returned.
SchemaReturned(a) == conv[a] = "tables"

\* tables.lines(): every line of the output, blank or not.
ExportedLines(lines) == lines

\* mdb-tables, then one spawned export task per line.  With no line at all
\* the job returns Ok at once.
ConvTables(a) ==
    /\ SchemaReturned(a)
    /\ \/ /\ ConvFail(a, "io")
          /\ UNCHANGED <<nonzero, tables, exp, joinIdx>>
       \/ \E exit \in {"zero", "nonzero"} : \E out \in TableOutputs(TableCap, exit) :
            /\ nonzero' = [nonzero EXCEPT ![a] =
                              IF exit = "zero" THEN @ ELSE @ \cup {"mdb-tables"}]
            /\ IF ~ExitAccepted(exit)
               THEN ConvFail(a, "tool") /\ UNCHANGED <<tables, exp, joinIdx>>
               ELSE LET lines == ExportedLines(out) IN
                    /\ tables' = [tables EXCEPT ![a] = lines]
                    /\ exp' = [exp EXCEPT ![a] = [i \in DOMAIN lines |-> "conn"]]
                    /\ joinIdx' = [joinIdx EXCEPT ![a] = 1]
                    /\ conv' = [conv EXCEPT ![a] = IF Len(lines) = 0 THEN "ok" ELSE "join"]
                    /\ UNCHANGED cerr
    /\ UNCHANGED <<mainVars, fsVars, archVars, stmts>>

\* An export task: let conn = db.get().await?
ExpGetConn(a, i) ==
    /\ i \in DOMAIN exp[a]
    /\ exp[a][i] = "conn"
    /\ PoolFree
    /\ exp' = [exp EXCEPT ![a][i] = "exec"]
    /\ UNCHANGED <<mainVars, fsVars, archVars, conv, cerr, nonzero, tables, joinIdx, stmts>>

\* conn.batch_execute("COPY <table> FROM PROGRAM ...").await?; drop(conn).
\* A statement with an empty table name is a syntax error at the store.
ExpExec(a, i) ==
    /\ i \in DOMAIN exp[a]
    /\ exp[a][i] = "exec"
    /\ \E ok \in (IF tables[a][i] = 0 THEN {FALSE} ELSE BOOLEAN) :
         /\ stmts' = [stmts EXCEPT ![a] =
                         Append(@, [k |-> "copy", t |-> i, ok |-> ok])]
         /\ exp' = [exp EXCEPT ![a][i] = IF ok THEN "ok" ELSE "err"]
    /\ UNCHANGED <<mainVars, fsVars, archVars, conv, cerr, nonzero, tables, joinIdx>>

\* Variant: `handle.await?` alone, which drops the export task's own result.
ConvJoinUnchecked(a) ==
    /\ conv[a] = "join"
    /\ joinIdx[a] \in DOMAIN exp[a]
    /\ exp[a][joinIdx[a]] \in {"ok", "err"}
    /\ joinIdx' = [joinIdx EXCEPT ![a] = @ + 1]
    /\ conv' = [conv EXCEPT ![a] =
                   IF joinIdx[a] = Len(exp[a]) THEN "ok" ELSE "join"]
    /\ UNCHANGED cerr
    /\ UNCHANGED <<mainVars, fsVars, archVars, nonzero, tables, exp, stmts>>

\* for handle in export_handles { handle.await??; } Ok(())
ConvJoin(a) ==
    /\ conv[a] = "join"
    /\ joinIdx[a] \in DOMAIN exp[a]
    /\ exp[a][joinIdx[a]] \in {"ok", "err"}
    /\ IF exp[a][joinIdx[a]] = "err"
       THEN ConvFail(a, "store") /\ UNCHANGED joinIdx
       ELSE /\ joinIdx' = [joinIdx EXCEPT ![a] = @ + 1]
            /\ conv' = [conv EXCEPT ![a] =
                           IF joinIdx[a] = Len(exp[a]) THEN "ok" ELSE "join"]
            /\ UNCHANGED cerr
    /\ UNCHANGED <<mainVars, fsVars, archVars, nonzero, tables, exp, stmts>>

\* ------------------------------------------------------------------ Next
Next ==
    \/ MainStart
    \/ MainCatalog
    \/ Dispatch
    \/ \E a \in Archives : Collect(a)
    \/ MainFinish
    \/ MainVacuum
    \/ Rerun
    \/ \E a \in Archives : Fetch(a)
    \/ \E a \in Archives : NextEntry(a)
    \/ \E a \in Archives : RouteEntry(a)
    \/ \E a \in Archives : JoinConvert(a)
    \/ \E a \in Archives : ConvSchema(a)
    \/ \E a \in Archives : ConvGetConn(a)
    \/ \E a \in Archives : ConvExecSchema(a)
    \/ \E a \in Archives : ConvTables(a)
    \/ \E a \in Archives, i \in 1..MostTables : ExpGetConn(a, i)
    \/ \E a \in Archives, i \in 1..MostTables : ExpExec(a, i)
    \/ \E a \in Archives : ConvJoin(a)

Spec == Init /\ [][Next]_vars

\* The tokio scheduler polls every task that can make progress, every
\* request, tool and store statement returns, and the pool hands a free
\* connection to a waiting task.  Nothing forces a further run.
Fairness ==
    /\ WF_vars(MainStart) /\ WF_vars(MainCatalog) /\ WF_vars(Dispatch)
    /\ WF_vars(MainFinish) /\ WF_vars(MainVacuum)
    /\ \A a \in Archives :
          /\ WF_vars(Collect(a)) /\ WF_vars(Fetch(a)) /\ WF_vars(NextEntry(a))
          /\ WF_vars(RouteEntry(a)) /\ WF_vars(JoinConvert(a))
          /\ WF_vars(ConvSchema(a)) /\ WF_vars(ConvGetConn(a))
          /\ WF_vars(ConvExecSchema(a)) /\ WF_vars(ConvTables(a))
          /\ WF_vars(ConvJoin(a))
          /\ \A i \in 1..MostTables :
                WF_vars(ExpGetConn(a, i)) /\ WF_vars(ExpExec(a, i))

FairSpec == Spec /\ Fairness

\* ---------------------------------------------------------------- claims
Catalog == 1..catalogLen

Ended(a) == atask[a] \in {"ok", "err"}

\* Archive tasks dispatched by the scheduler and not yet completed.
InFlight == {a \in Archives : atask[a] \in ArchiveRunning}

\* C1: at every instant at most P archive tasks are in flight (so a new one
\* is dispatched only when fewer than P are).
C1_BoundedFanOut == Cardinality(InFlight) <= P

C1_Witness ==
    /\ Cardinality(InFlight) = P
    /\ nextIdx <= catalogLen

\* C2: in each archive's statement order at the store, every load statement
\* comes after a schema block that was executed and returned.
C2_SchemaBeforeLoads ==
    \A a \in Archives : \A i \in 1..Len(stmts[a]) :
        stmts[a][i].k = "copy" =>
            \E j \in 1..(i - 1) : stmts[a][j].k = "schema" /\ stmts[a][j].ok

C2_Witness ==
    \E a \in Archives : \E i \in 1..Len(stmts[a]) :
        stmts[a][i].k = "copy" /\ stmts[a][i].ok

DbCount(a) ==
    Cardinality({i \in 1..Len(seen[a]) : IsDatabaseFile(seen[a][i])})

\* C3: an archive with two or more database files fails with the duplicate
\* error, no conversion job is spawned for it and none of its statements
\* reaches the store.
C3_DuplicateNoConversion ==
    \A a \in Archives :
        DbCount(a) >= 2 =>
            /\ conv[a] = "none"
            /\ stmts[a] = <<>>
            /\ (Ended(a) => atask[a] = "err" /\ aerr[a] = "dup")

\* The archive was decoded to its end and its conversion job joined.
DecodedAndJoined(a) == Ended(a) /\ chandle[a] = "joined"

\* Schema extraction, table enumeration and every export succeeded.
AllStepsSucceeded(a) ==
    /\ conv[a] = "ok"
    /\ nonzero[a] = {}
    /\ \A i \in DOMAIN exp[a] : exp[a][i] = "ok"

\* C4: an archive with exactly one database file runs a conversion job, and
\* its result is Ok iff schema extraction, table enumeration and every
\* export succeeded (a non-zero exit of a tool makes it an error).
C4_OkIffStepsSucceed ==
    \A a \in Archives :
        DbCount(a) = 1 /\ DecodedAndJoined(a) =>
            /\ conv[a] # "none"
            /\ (atask[a] = "ok" <=> AllStepsSucceeded(a))

SchemaApplied(a) ==
    \E i \in 1..Len(stmts[a]) : stmts[a][i].k = "schema" /\ stmts[a][i].ok

Loaded(a) ==
    {stmts[a][i].t : i \in {j \in 1..Len(stmts[a]) :
                               stmts[a][j].k = "copy" /\ stmts[a][j].ok}}

ConvEnded(a) == conv[a] \in {"ok", "err"}

\* C5 as stated: once the conversion has ended the store holds the schema
\* and the data of every enumerated table, or nothing of the archive.
C5_AtomicPerArchive ==
    \A a \in Archives :
        ConvEnded(a) =>
            \/ SchemaApplied(a) /\ Loaded(a) = DOMAIN tables[a]
            \/ ~SchemaApplied(a) /\ Loaded(a) = {}

\* C5 as amended: each statement commits on its own, the schema first.  A
\* conversion that ended with Ok left the schema and the data of every
\* enumerated table; one that ended with an error may have left any part,
\* but never table data without the schema.
C5_CommitPerStatement ==
    \A a \in Archives :
        ConvEnded(a) =>
            /\ (conv[a] = "ok" => SchemaApplied(a) /\ Loaded(a) = DOMAIN tables[a])
            /\ (Loaded(a) # {} => SchemaApplied(a))

C5_Witness ==
    \E a \in Archives :
        /\ conv[a] = "err"
        /\ SchemaApplied(a)
        /\ Loaded(a) # {}
        /\ Loaded(a) # DOMAIN tables[a]

\* C6: when an archive task reports its result, the conversion job it
\* spawned has terminated and its handle was joined.
C6_JoinedBeforeReport ==
    \A a \in Archives :
        Ended(a) /\ conv[a] # "none" =>
            conv[a] \in {"ok", "err"} /\ chandle[a] = "joined"

\* The run ended before the scheduler loop was entered.
PreflightResults ==
    {PanicResult, ErrResult("tool", 0), ErrResult("fs", 0), ErrResult("net", 0)}

SchedulerRan == mainpc = "done" /\ mainResult \notin PreflightResults

AllArchivesOk == \A a \in Catalog : atask[a] = "ok"

\* The result is the error of archive a, the only failure the loop observed.
FirstObservedFailure(a) ==
    /\ atask[a] = "err"
    /\ mainResult = ErrResult(aerr[a], a)
    /\ a \notin buffered
    /\ \A b \in Catalog \ {a} : atask[b] = "err" => b \in buffered

\* C7 as stated: the run's result is Ok iff every archive completed with Ok,
\* and otherwise the error of the first archive whose failure was observed.
C7_ResultIffAllOk ==
    SchedulerRan =>
        /\ (mainResult = OkResult <=> AllArchivesOk)
        /\ (mainResult # OkResult => \E a \in Catalog : FirstObservedFailure(a))

\* C7 as amended: the result is Ok iff every archive completed with Ok and,
\* with the clean flag, the final VACUUM succeeded; when an archive failed
\* it is the error of the first archive whose failure was observed.
C7_ResultIffAllOkAndVacuum ==
    SchedulerRan =>
        /\ (mainResult = OkResult => AllArchivesOk)
        /\ (AllArchivesOk =>
                \/ mainResult = OkResult
                \/ clean /\ mainResult = ErrResult("store", 0))
        /\ (~AllArchivesOk => \E a \in Catalog : FirstObservedFailure(a))

C7_Witness ==
    /\ SchedulerRan
    /\ \E a, b \in Catalog :
         a # b /\ FirstObservedFailure(a) /\ atask[b] = "err"

\* C8: no archive task that was dispatched is cancelled: each runs to its
\* own completion, also after another archive's failure.
C8_SiblingsRunToCompletion ==
    \A a \in Archives : atask[a] # "aborted"

ToolsMissing == ~(REQUIRED_TOOLS \subseteq resolvable)

NoNetworkNoStore ==
    /\ ~netUsed
    /\ vacuums = 0
    /\ \A a \in Archives : stmts[a] = <<>>

PathsOf(a) == {OutPath(seen[a][i]) : i \in 1..Len(seen[a])}

FilesOf(a) == {p \in PathsOf(a) : fs[p] # Absent}

PlainOutput(a) ==
    /\ Cardinality(FilesOf(a)) = Len(seen[a])
    /\ \A i \in 1..Len(seen[a]) : fs[OutPath(seen[a][i])] = seen[a][i].data
    /\ conv[a] = "none"

\* C10 as stated: once the task of a well-formed archive of N plain entries
\* has ended (read here in its favour: ended with Ok, every copy complete),
\* the tree holds N files of it, each with its entry's bytes, and no
\* conversion job was spawned.
C10_PlainEntriesWritten ==
    \A a \in Archives :
        atask[a] = "ok" /\ PlainOnly(a) => PlainOutput(a)

DistinctPaths(a) == Cardinality(PathsOf(a)) = Len(seen[a])

NoOtherWriter(a) ==
    \A b \in Archives \ {a} : \A j \in 1..Len(seen[b]) :
        HasExtension(seen[b][j]) => OutPath(seen[b][j]) \notin PathsOf(a)

\* C10 as amended: that holds when the task ended with Ok, the entries'
\* output paths (extension and final component) are pairwise distinct and
\* no other archive of the run has an entry with one of these paths.
C10_PlainEntriesWrittenDistinct ==
    \A a \in Archives :
        atask[a] = "ok" /\ PlainOnly(a) /\ DistinctPaths(a) /\ NoOtherWriter(a)
            => PlainOutput(a)

C10_Witness ==
    \E a \in Archives :
        /\ atask[a] = "ok"
        /\ Len(seen[a]) = 2
        /\ PlainOnly(a) /\ DistinctPaths(a) /\ NoOtherWriter(a)

\* C11: a second run against the output root of a first run that succeeded
\* on archives of plain entries only succeeds too, and leaves every file
\* with the content it had after the first run.
C11_RerunIdempotent ==
    runs >= 2 /\ mainpc = "done" /\ prev.result = OkResult /\ prev.plain =>
        mainResult = OkResult /\ fs = prev.fs

\* The entry archive a was handed last has no extension.
AtBareEntry(a) == atask[a] = "route" /\ Extension(Last(seen[a]).raw) = NoExt

\* C12: the step that handles an entry without extension creates no
\* directory, writes no file, spawns no conversion job, and leaves the task
\* asking the decoder for the next entry.
C12_BareEntryDiscarded ==
    [][\A a \in Archives :
          AtBareEntry(a) /\ atask'[a] \notin {"route", "aborted"} =>
              /\ atask'[a] = "next"
              /\ dirs' = dirs /\ fs' = fs
              /\ conv'[a] = conv[a] /\ chandle'[a] = chandle[a]
              /\ seen'[a] = seen[a]]_vars

\* An archive of an entry without extension followed by a plain one ended
\* with Ok, and the tree holds the plain entry's directory and file only.
C12_Witness ==
    \E a \in Archives :
        /\ atask[a] = "ok"
        /\ Len(seen[a]) = 2
        /\ Extension(seen[a][1].raw) = NoExt
        /\ Extension(seen[a][2].raw) = "txt"
        /\ dirs = {"txt"}
        /\ \A p \in Paths : fs[p] # Absent <=> p = OutPath(seen[a][2])

\* The entry the decoder yielded last is still in the loop body's hands.
CursorOpen(a) == Len(seen[a]) = Len(routed[a]) + 1

\* C13: the entries handled are the entries yielded, in stream order and
\* once each, but for at most one entry that is being handled; and the
\* decoder yields a new entry only when every earlier one has been handled
\* and its cursor consumed.
C13_SingleCursor ==
    /\ [](\A a \in Archives :
            /\ Len(routed[a]) <= Len(seen[a])
            /\ Len(seen[a]) <= Len(routed[a]) + 1
            /\ routed[a] = SubSeq(seen[a], 1, Len(routed[a]))
            /\ (atask[a] = "route" => CursorOpen(a))
            /\ (atask[a] \in {"next", "join", "ok"} => routed[a] = seen[a]))
    /\ [][\A a \in Archives :
            Len(seen'[a]) > Len(seen[a]) =>
                /\ routed[a] = seen[a]
                /\ seen'[a] = Append(seen[a], Last(seen'[a]))
                /\ routed'[a] = routed[a]]_vars

\* Two entries were yielded and handled one after the other, and the task
\* asks for a third.
C13_Witness ==
    \E a \in Archives :
        /\ atask[a] = "next"
        /\ Len(seen[a]) = 2
        /\ routed[a] = seen[a]
        /\ seen[a][1] # seen[a][2]

\* C14: when mdb-schema exited with a non-zero status the conversion has
\* failed with the tool error, no statement of the archive reached the
\* store, mdb-tables was not run and no export was spawned, and the
\* archive's task does not end with Ok.
C14_SchemaExitFatal ==
    \A a \in Archives :
        "mdb-schema" \in nonzero[a] =>
            /\ conv[a] \in {"err", "aborted"}
            /\ stmts[a] = <<>>
            /\ "mdb-tables" \notin nonzero[a] /\ tables[a] = <<>> /\ exp[a] = <<>>
            /\ atask[a] # "ok"

\* The lines of mdb-tables' output that name a table.
TableNames(a) == {i \in DOMAIN tables[a] : tables[a][i] # 0}

\* C15: the conversion spawns one export task per non-blank line of the
\* table enumeration, and none for a blank line.
C15_OneLoadPerTable ==
    \A a \in Archives :
        /\ Len(exp[a]) = Cardinality(TableNames(a))
        /\ \A i \in DOMAIN exp[a] : i \in TableNames(a)

\* The conversion of archive a has asked the pool for a connection.
PastSchemaFile(a) ==
    \/ conv[a] \in {"conn", "exec", "tables", "join", "ok"}
    \/ conv[a] \in {"err", "aborted"} /\ stmts[a] # <<>>

SchemaArtifact(a) == fs[SchemaPath(DbEntry(a))]

WritesTo(b, p) ==
    /\ atask[b] = "route"
    /\ HasExtension(Last(seen[b]))
    /\ OutPath(Last(seen[b])) = p
    /\ Len(routed'[b]) > Len(routed[b])

\* C17: while the conversion job of an archive is running, no task (of the
\* same archive or of another) opens or writes the database file the job
\* reads.
C17_DatabaseFileStable ==
    [][\A a \in Archives :
          conv[a] \in ConvRunning =>
              \A b \in Archives : ~WritesTo(b, OutPath(DbEntry(a)))]_vars

\* Export task i of archive a waits in db.get().
Waiting(a, i) == i \in DOMAIN exp[a] /\ exp[a][i] = "conn"

Holding(a, i) == i \in DOMAIN exp[a] /\ exp[a][i] = "exec"

Cancelled(a, i) == i \in DOMAIN exp[a] /\ exp[a][i] = "aborted"

C19_ExportsEndWithConversion ==
    \A a \in Archives :
        ConvEnded(a) /\ TableNames(a) = DOMAIN tables[a] =>
            \A i \in DOMAIN exp[a] : exp[a][i] \notin ExportRunning

\* No task of the run is at work.
NothingInFlight ==
    /\ InFlight = {}
    /\ \A a \in Archives :
          /\ conv[a] \notin ConvRunning
          /\ \A i \in DOMAIN exp[a] : exp[a][i] \notin ExportRunning

\* C20: VACUUM is issued at most once per run, and the step that issues it
\* is taken with the clean flag set, after every archive of the catalog has
\* completed with Ok, with no archive, conversion or export in flight, and
\* it ends the run.
C20_VacuumOnceWhenAllOk ==
    /\ [](vacuums <= runs)
    /\ [][vacuums' # vacuums =>
            /\ vacuums' = vacuums + 1
            /\ clean
            /\ AllArchivesOk
            /\ \A a \in Archives : atask[a] \notin {"err", "aborted"}
            /\ NothingInFlight
            /\ mainpc' = "done" /\ runs' = runs]_vars

\* VACUUM was issued after an archive's conversion loaded a table.
C20_Witness ==
    /\ vacuums = 1
    /\ mainpc = "done"
    /\ \E a \in Catalog : conv[a] = "ok" /\ Loaded(a) # {}

====
